---- MODULE Spec2Model ----
(***************************************************************************)
(* A model of haisvg (src/src/lib.rs): the attribute maps of SVGElement    *)
(* and SVG, the PathNode constructors and the ToPathNode coercion, the     *)
(* element constructors, and the Display implementations that serialize    *)
(* them.                                                                   *)
(*                                                                         *)
(* Text (a Rust String) is a sequence of one-character strings, so that    *)
(* concatenation, length, prefixes and the byte order String's Ord uses    *)
(* are all computed rather than assumed.  An Option is a sequence of       *)
(* length 0 (None) or 1 (Some).  A HashMap<String, String> is a function   *)
(* from its keys to their values; the order in which iter() visits the     *)
(* entries is arbitrary and is a parameter of every operator that          *)
(* iterates.                                                               *)
(***************************************************************************)
EXTENDS Integers, Sequences, FiniteSets

VARIABLES
    el,      \* the SVGElement the element program holds (NoElement before any)
    made,    \* ghost: the constructor call that produced el, with its arguments
    calls,   \* ghost: every add_attr(key, text) performed on el, in call order
    nadd,    \* number of add_attr calls the caller has made on el since construction
    res,     \* the answer of the last get_value call since the last mutation
    node,    \* the PathNode the path program holds (NoNode before any)
    coerced, \* ghost: the PathNodes SVGElement::path obtained by to_path_node
    svg,     \* the SVG document (NoSvg before SVG::new)
    svgCalls,\* ghost: every add_attr(key, text) performed on svg, in call order
    added,   \* ghost: the elements handed to add_element, in call order
    out      \* the texts of the serializations of svg since its last mutation

vars == <<el, made, calls, nadd, res, node, coerced, svg, svgCalls, added, out>>

---------------------------------------------------------------------------
(* Bounds of the model. *)

\* add_attr calls a caller makes on one element, or on the document
MaxAddAttr == 2
\* elements added to one document
MaxElements == 2
\* length of the Vec handed to SVGElement::path, polygon and polyline
MaxVecLen == 3
\* iteration orders of a HashMap that one serialization is tried under
NumOrders == 6
\* serializations of the document between two mutations
MaxSerialize == 2

---------------------------------------------------------------------------
(* Text. *)

\* the ASCII characters of bytes 32 (space) to 95 (_), in byte order
Ascii32 ==
    << " ", "!", "\"", "#", "$", "%", "&", "'", "(", ")", "*", "+", ",", "-",
       ".", "/", "0", "1", "2", "3", "4", "5", "6", "7", "8", "9", ":", ";",
       "<", "=", ">", "?", "@", "A", "B", "C", "D", "E", "F", "G", "H", "I",
       "J", "K", "L", "M", "N", "O", "P", "Q", "R", "S", "T", "U", "V", "W",
       "X", "Y", "Z", "[", "\\", "]", "^", "_" >>

\* the ASCII characters of bytes 97 (a) to 126 (~), in byte order
Ascii97 ==
    << "a", "b", "c", "d", "e", "f", "g", "h", "i", "j", "k", "l", "m", "n",
       "o", "p", "q", "r", "s", "t", "u", "v", "w", "x", "y", "z", "{", "|",
       "}", "~" >>

Chars ==
    {Ascii32[i] : i \in 1..Len(Ascii32)} \cup {Ascii97[i] : i \in 1..Len(Ascii97)}
        \cup {"\n"}

\* the byte of each character (UTF-8 of an ASCII character is its code)
ByteOf ==
    [c \in Chars |->
        IF c = "\n" THEN 10
        ELSE IF \E i \in 1..Len(Ascii32) : Ascii32[i] = c
             THEN 31 + (CHOOSE i \in 1..Len(Ascii32) : Ascii32[i] = c)
             ELSE 96 + (CHOOSE i \in 1..Len(Ascii97) : Ascii97[i] = c)]

\* a < b in the order of str's Ord: lexicographic by bytes, a proper prefix first
RECURSIVE StrLess(_, _)
StrLess(a, b) ==
    IF b = <<>> THEN FALSE
    ELSE IF a = <<>> THEN TRUE
    ELSE IF Head(a) = Head(b) THEN StrLess(Tail(a), Tail(b))
    ELSE ByteOf[Head(a)] < ByteOf[Head(b)]

\* the decimal digits of n >= 0
RECURSIVE Digits(_)
Digits(n) ==
    IF n < 10 THEN <<Ascii32[17 + n]>>
    ELSE Digits(n \div 10) \o <<Ascii32[17 + (n % 10)]>>

\* i32's ToString: the decimal digits, a leading "-" when negative
IntToString(n) == IF n < 0 THEN <<"-">> \o Digits(0 - n) ELSE Digits(n)

\* [String]::join(sep)
RECURSIVE Join(_, _)
Join(items, sep) ==
    IF items = <<>> THEN <<>>
    ELSE IF Len(items) = 1 THEN items[1]
    ELSE items[1] \o sep \o Join(Tail(items), sep)

\* x put into the ascending sequence s, after the items not greater than it
RECURSIVE InsertSorted(_, _)
InsertSorted(s, x) ==
    IF s = <<>> THEN <<x>>
    ELSE IF StrLess(x, Head(s)) THEN <<x>> \o s
    ELSE <<Head(s)>> \o InsertSorted(Tail(s), x)

\* Vec<String>::sort: the items in ascending order of str's Ord (stable)
RECURSIVE Sort(_)
Sort(items) ==
    IF items = <<>> THEN <<>>
    ELSE InsertSorted(Sort(SubSeq(items, 1, Len(items) - 1)), items[Len(items)])


---------------------------------------------------------------------------
(* Values of the generic parameters.  A T: ToString argument is [int |-> n]
   (an i32) or [str |-> s] (a &str or String); to_string renders it. *)

to_string(value) ==
    IF "int" \in DOMAIN value THEN IntToString(value.int) ELSE value.str

I32(n) == [int |-> n]
Str(s) == [str |-> s]

\* Option<T>::map(|v| v.to_string()).unwrap_or_else(|| default.to_string())
OrDefault(opt, default) ==
    IF opt = <<>> THEN Str(default) ELSE Str(to_string(opt[1]))

\* format!("{},{}", x.to_string(), y.to_string())
FormatPair(x, y) == to_string(x) \o <<",">> \o to_string(y)

---------------------------------------------------------------------------
(* HashMap<String, String>. *)

HashMap_new == <<>>

\* a faulty insert: a key already in the map keeps its old value
HashMap_insert_keeps_old(m, key, value) ==
    [k \in (DOMAIN m) \cup {key} |-> IF k \in DOMAIN m THEN m[k] ELSE value]

HashMap_insert(m, key, value) ==
    [k \in (DOMAIN m) \cup {key} |-> IF k = key THEN value ELSE m[k]]

HashMap_get(m, key) == IF key \in DOMAIN m THEN <<m[key]>> ELSE <<>>

\* the keys of S from the greatest to the least
RECURSIVE Descending(_)
Descending(S) ==
    IF S = {} THEN <<>>
    ELSE LET top == CHOOSE k \in S : \A j \in S \ {k} : StrLess(j, k)
         IN  <<top>> \o Descending(S \ {top})

\* the n-th arrangement of the sequence s (n in 0..Len(s)!-1 gives them all)
RECURSIVE Arrangement(_, _)
Arrangement(s, n) ==
    IF s = <<>> THEN <<>>
    ELSE LET i == (n % Len(s)) + 1
         IN  <<s[i]>> \o Arrangement(SubSeq(s, 1, i - 1) \o SubSeq(s, i + 1, Len(s)),
                                     n \div Len(s))

\* HashMap::iter: the keys in the order one iteration visits the entries.  The
\* order is arbitrary; `order` selects it.
HashMap_iter(m, order) == Arrangement(Descending(DOMAIN m), order)

\* the iteration orders a serialization is tried under
Orders == 0..(NumOrders - 1)

---------------------------------------------------------------------------
(* Processable, lines 19-36. *)

\* points is Str(s), a String, or [vec |-> v], a Vec<(T, T)>
Process(points) ==
    IF "str" \in DOMAIN points THEN points.str
    ELSE Join([i \in 1..Len(points.vec) |->
                  FormatPair(points.vec[i][1], points.vec[i][2])], <<" ">>)

---------------------------------------------------------------------------
(* PathNode, lines 38-270. *)

NoNode == [none |-> TRUE]

Node(tag, point_data) == [tag |-> tag, point_data |-> point_data]

PathNode_move_to(x, y) == Node(<<"M">>, FormatPair(x, y))
PathNode_move_by(dx, dy) == Node(<<"m">>, FormatPair(dx, dy))
PathNode_line_to(dx, dy) == Node(<<"L">>, FormatPair(dx, dy))
PathNode_line_by(dx, dy) == Node(<<"l">>, FormatPair(dx, dy))
PathNode_horizontal_to(x) == Node(<<"H">>, to_string(x))
PathNode_horizontal_by(dx) == Node(<<"h">>, to_string(dx))
PathNode_vertical_to(y) == Node(<<"V">>, to_string(y))
PathNode_vertical_by(dy) == Node(<<"v">>, to_string(dy))
PathNode_cubic_to(x1, y1, x2, y2, x, y) ==
    Node(<<"C">>, FormatPair(x1, y1) \o <<" ">> \o FormatPair(x2, y2) \o <<" ">> \o FormatPair(x, y))
PathNode_cubic_by(dx1, dy1, dx2, dy2, dx, dy) ==
    Node(<<"c">>, FormatPair(dx1, dy1) \o <<" ">> \o FormatPair(dx2, dy2) \o <<" ">>
                  \o FormatPair(dx, dy))
PathNode_smooth_cubic_to(x2, y2, x, y) ==
    Node(<<"S">>, FormatPair(x2, y2) \o <<" ">> \o FormatPair(x, y))
PathNode_smooth_cubic_by(dx2, dy2, dx, dy) ==
    Node(<<"s">>, FormatPair(dx2, dy2) \o <<" ">> \o FormatPair(dx, dy))
PathNode_quadratic_to(x1, y1, x, y) ==
    Node(<<"Q">>, FormatPair(x1, y1) \o <<" ">> \o FormatPair(x, y))
PathNode_quadratic_by(dx1, dy1, dx, dy) ==
    Node(<<"q">>, FormatPair(dx1, dy1) \o <<" ">> \o FormatPair(dx, dy))
PathNode_smooth_quadratic_to(x, y) == Node(<<"T">>, FormatPair(x, y))
PathNode_smooth_quadratic_by(dx, dy) == Node(<<"t">>, FormatPair(dx, dy))
PathNode_elliptical_to(rx, ry, angle, large_arc_flag, sweep_flag, x, y) ==
    Node(<<"A">>, to_string(rx) \o <<" ">> \o to_string(ry) \o <<" ">> \o to_string(angle) \o <<" ">>
                  \o to_string(large_arc_flag) \o <<" ">> \o to_string(sweep_flag) \o <<" ">>
                  \o FormatPair(x, y))
PathNode_elliptical_by(rx, ry, angle, large_arc_flag, sweep_flag, dx, dy) ==
    Node(<<"a">>, to_string(rx) \o <<" ">> \o to_string(ry) \o <<" ">> \o to_string(angle) \o <<" ">>
                  \o to_string(large_arc_flag) \o <<" ">> \o to_string(sweep_flag) \o <<" ">>
                  \o FormatPair(dx, dy))
PathNode_close_path == Node(<<"Z">>, <<>>)

\* a faulty Display: no space after the tag of a node without operands
PathNode_fmt_trimmed(n) ==
    IF n.point_data = <<>> THEN n.tag ELSE n.tag \o <<" ">> \o n.point_data

\* Display for PathNode: write!(formatter, "{} {}", self.tag, self.point_data)
PathNode_fmt(n) == n.tag \o <<" ">> \o n.point_data

\* ToPathNode for PathNode: a copy; the tag argument is ignored
PathNode_to_path_node(n, tag) == Node(n.tag, n.point_data)

\* ToPathNode for (T, T): the caller's tag, the pair as "x,y"
Pair_to_path_node(p, tag) == Node(tag, FormatPair(p[1], p[2]))

\* node.to_path_node(tag), dispatched on the type of node
to_path_node(x, tag) ==
    IF "tag" \in DOMAIN x THEN PathNode_to_path_node(x, tag)
    ELSE Pair_to_path_node(x.pair, tag)

Pair(x, y) == [pair |-> <<x, y>>]

---------------------------------------------------------------------------
(* SVGElement, lines 272-478. *)

NoElement == [none |-> TRUE]

Element(tag, inner) == [tag |-> tag, attributes |-> HashMap_new, inner |-> inner]

\* add_attr: self.attributes.insert(key.to_string(), value.to_string())
SVGElement_add_attr(e, key, value) ==
    [e EXCEPT !.attributes = HashMap_insert(@, key, to_string(value))]

\* e.add_attr(k1, v1).add_attr(k2, v2)... for the calls <<k1, v1>>, <<k2, v2>>, ...
RECURSIVE AddAttrs(_, _)
AddAttrs(e, kvs) ==
    IF kvs = <<>> THEN e
    ELSE AddAttrs(SVGElement_add_attr(e, kvs[1][1], kvs[1][2]), Tail(kvs))

\* get_value: Ok(&value) or Err(HaiSVGError::KeyNotFound(key.to_string()))
SVGElement_get_value(e, key) ==
    LET found == HashMap_get(e.attributes, key)
    IN  IF found # <<>> THEN [ok |-> found[1]] ELSE [err |-> <<"K", "e", "y", "N", "o", "t", "F", "o", "u", "n", "d">>, key |-> key]

SVGElement_new(tag) == Element(tag, <<>>)

\* the add_attr calls of each constructor, in the order the constructor makes them
rect_attrs(width, height, x, y, rx, ry) ==
    << <<<<"w", "i", "d", "t", "h">>, width>>, <<<<"h", "e", "i", "g", "h", "t">>, height>>, <<<<"x">>, x>>, <<<<"y">>, y>>,
       <<<<"r", "x">>, OrDefault(rx, <<"0">>)>>, <<<<"r", "y">>, OrDefault(ry, <<"0">>)>> >>
circle_attrs(r, cx, cy) == << <<<<"r">>, r>>, <<<<"c", "x">>, cx>>, <<<<"c", "y">>, cy>> >>
ellipse_attrs(rx, ry, cx, cy) ==
    << <<<<"r", "x">>, rx>>, <<<<"r", "y">>, ry>>, <<<<"c", "x">>, cx>>, <<<<"c", "y">>, cy>> >>
line_attrs(x1, y1, x2, y2) ==
    << <<<<"x", "1">>, x1>>, <<<<"y", "1">>, y1>>, <<<<"x", "2">>, x2>>, <<<<"y", "2">>, y2>> >>
points_attrs(points) == << <<<<"p", "o", "i", "n", "t", "s">>, Str(Process(points))>> >>
\* a faulty text: textLength defaults to "0" like the arguments before it
text_attrs_wrong_default(x, y, dx, dy, rotate, text_length, length_adjust) ==
    << <<<<"x">>, x>>, <<<<"y">>, y>>, <<<<"d", "x">>, OrDefault(dx, <<"0">>)>>,
       <<<<"d", "y">>, OrDefault(dy, <<"0">>)>>, <<<<"r", "o", "t", "a", "t", "e">>, OrDefault(rotate, <<"0">>)>>,
       <<<<"t", "e", "x", "t", "L", "e", "n", "g", "t", "h">>, OrDefault(text_length, <<"0">>)>>,
       <<<<"l", "e", "n", "g", "t", "h", "A", "d", "j", "u", "s", "t">>, OrDefault(length_adjust, <<"s", "p", "a", "c", "i", "n", "g">>)>> >>

text_attrs(x, y, dx, dy, rotate, text_length, length_adjust) ==
    << <<<<"x">>, x>>, <<<<"y">>, y>>, <<<<"d", "x">>, OrDefault(dx, <<"0">>)>>,
       <<<<"d", "y">>, OrDefault(dy, <<"0">>)>>, <<<<"r", "o", "t", "a", "t", "e">>, OrDefault(rotate, <<"0">>)>>,
       <<<<"t", "e", "x", "t", "L", "e", "n", "g", "t", "h">>, OrDefault(text_length, <<"n", "o", "n", "e">>)>>,
       <<<<"l", "e", "n", "g", "t", "h", "A", "d", "j", "u", "s", "t">>, OrDefault(length_adjust, <<"s", "p", "a", "c", "i", "n", "g">>)>> >>

\* d.iter().map(|node| node.to_path_node("")): the nodes path renders
path_nodes(d) == [i \in 1..Len(d) |-> to_path_node(d[i], <<>>)]

\* ....map(|node| ....to_string()).collect::<Vec<_>>().join(" ")
path_items(d) == Join([i \in 1..Len(d) |-> PathNode_fmt(path_nodes(d)[i])], <<" ">>)

path_attrs(d) == << <<<<"d">>, Str(path_items(d))>> >>

SVGElement_rect(width, height, x, y, rx, ry) ==
    AddAttrs(Element(<<"r", "e", "c", "t">>, <<>>), rect_attrs(width, height, x, y, rx, ry))
SVGElement_circle(r, cx, cy) == AddAttrs(Element(<<"c", "i", "r", "c", "l", "e">>, <<>>), circle_attrs(r, cx, cy))
SVGElement_ellipse(rx, ry, cx, cy) ==
    AddAttrs(Element(<<"e", "l", "l", "i", "p", "s", "e">>, <<>>), ellipse_attrs(rx, ry, cx, cy))
SVGElement_line(x1, y1, x2, y2) ==
    AddAttrs(Element(<<"l", "i", "n", "e">>, <<>>), line_attrs(x1, y1, x2, y2))
SVGElement_polygon(points) == AddAttrs(Element(<<"p", "o", "l", "y", "g", "o", "n">>, <<>>), points_attrs(points))
SVGElement_polyline(points) == AddAttrs(Element(<<"p", "o", "l", "y", "l", "i", "n", "e">>, <<>>), points_attrs(points))
SVGElement_path(d) == AddAttrs(Element(<<"p", "a", "t", "h">>, <<>>), path_attrs(d))
SVGElement_text(text, x, y, dx, dy, rotate, text_length, length_adjust) ==
    AddAttrs(Element(<<"t", "e", "x", "t">>, <<to_string(text)>>),
             text_attrs(x, y, dx, dy, rotate, text_length, length_adjust))

\* a faulty format_keys: the items are joined in iteration order, unsorted
SVGElement_format_keys_unsorted(e, order) ==
    LET keys == HashMap_iter(e.attributes, order)
        items == [i \in 1..Len(keys) |->
                     keys[i] \o <<"=", "\"">> \o e.attributes[keys[i]] \o <<"\"">>]
    IN  Join(items, <<" ">>)

\* format_keys: the key="value" items in iteration order, sorted, joined by " "
SVGElement_format_keys(e, order) ==
    LET keys == HashMap_iter(e.attributes, order)
        items == [i \in 1..Len(keys) |->
                     keys[i] \o <<"=", "\"">> \o e.attributes[keys[i]] \o <<"\"">>]
    IN  Join(Sort(items), <<" ">>)

\* a faulty Display: the form is chosen by the tag, "text" being content-bearing
SVGElement_fmt_by_tag(e, order) ==
    LET attrs == SVGElement_format_keys(e, order)
        open == <<"<">> \o e.tag \o (IF attrs # <<>> THEN <<" ">> \o attrs ELSE <<>>)
    IN  IF e.tag = <<"t", "e", "x", "t">>
        THEN open \o <<">">> \o (IF e.inner # <<>> THEN e.inner[1] ELSE <<>>) \o <<"<", "/">>
                \o e.tag \o <<">">>
        ELSE open \o <<" ", "/", ">">>

\* a faulty Display: the space before the attributes is written even when there
\* are none
SVGElement_fmt_always_space(e, order) ==
    LET attrs == SVGElement_format_keys(e, order)
        open == <<"<">> \o e.tag \o <<" ">> \o attrs
    IN  IF e.inner # <<>>
        THEN open \o <<">">> \o e.inner[1] \o <<"<", "/">> \o e.tag \o <<">">>
        ELSE open \o <<" ", "/", ">">>

\* Display for SVGElement
SVGElement_fmt(e, order) ==
    LET attrs == SVGElement_format_keys(e, order)
        open == <<"<">> \o e.tag \o (IF attrs # <<>> THEN <<" ">> \o attrs ELSE <<>>)
    IN  IF e.inner # <<>>
        THEN open \o <<">">> \o e.inner[1] \o <<"<", "/">> \o e.tag \o <<">">>
        ELSE open \o <<" ", "/", ">">>

---------------------------------------------------------------------------
(* SVG, lines 480-545. *)

NoSvg == [none |-> TRUE]

SVG_add_attr(s, key, value) ==
    [s EXCEPT !.attributes = HashMap_insert(@, key, to_string(value))]

\* a faulty add_element: the element is put before the earlier ones
SVG_add_element_front(s, element) == [s EXCEPT !.elements = <<element>> \o @]

\* add_element: self.elements.push(element)
SVG_add_element(s, element) == [s EXCEPT !.elements = Append(@, element)]

svg_attrs(width, height, namespace) ==
    << <<<<"w", "i", "d", "t", "h">>, Str(to_string(width))>>, <<<<"h", "e", "i", "g", "h", "t">>, Str(to_string(height))>>,
       <<<<"x", "m", "l", "n", "s">>, OrDefault(namespace, <<"h", "t", "t", "p", ":", "/", "/", "w", "w", "w", ".", "w", "3", ".", "o", "r", "g", "/", "2", "0", "0", "0", "/", "s", "v", "g">>)>> >>

RECURSIVE SvgAddAttrs(_, _)
SvgAddAttrs(s, kvs) ==
    IF kvs = <<>> THEN s
    ELSE SvgAddAttrs(SVG_add_attr(s, kvs[1][1], kvs[1][2]), Tail(kvs))

SVG_new(width, height, namespace) ==
    SvgAddAttrs([attributes |-> HashMap_new, elements |-> <<>>],
                svg_attrs(width, height, namespace))

\* a faulty format_keys: the items are joined in iteration order, unsorted
SVG_format_keys_unsorted(s, order) ==
    LET keys == HashMap_iter(s.attributes, order)
        items == [i \in 1..Len(keys) |->
                     keys[i] \o <<"=", "\"">> \o s.attributes[keys[i]] \o <<"\"">>]
    IN  Join(items, <<" ">>)

\* format_keys: the key="value" items in iteration order, sorted, joined by " "
SVG_format_keys(s, order) ==
    LET keys == HashMap_iter(s.attributes, order)
        items == [i \in 1..Len(keys) |->
                     keys[i] \o <<"=", "\"">> \o s.attributes[keys[i]] \o <<"\"">>]
    IN  Join(Sort(items), <<" ">>)

\* the elements' texts joined by "\n"; the i-th element's map is iterated in its
\* own order
SVG_format_elements(s, order) ==
    Join([i \in 1..Len(s.elements) |-> SVGElement_fmt(s.elements[i], order + i)], <<"\n">>)

\* Display for SVG: write!(formatter, "<svg {}>\n{}\n</svg>", ...)
SVG_fmt(s, order) ==
    <<"<", "s", "v", "g", " ">> \o SVG_format_keys(s, order) \o <<">", "\n">> \o SVG_format_elements(s, order)
        \o <<"\n", "<", "/", "s", "v", "g", ">">>

---------------------------------------------------------------------------
(* The inputs the programs are run on. *)

\* the argument tuples of an n-ary constructor: all 0, then 1, 2, ..., n (which
\* tells the positions apart), then -1, -2, ..., -n
IntArgs(n) ==
    { [i \in 1..n |-> I32(0)], [i \in 1..n |-> I32(i)], [i \in 1..n |-> I32(0 - i)] }

\* an optional i32 argument
OptInt == {<<>>, <<I32(5)>>}

\* the five optional &str arguments of text: all absent, all present, or exactly
\* one present
OptStrArgs ==
    { [i \in 1..5 |-> <<>>], [i \in 1..5 |-> <<Str(<<"5">>)>>] }
        \cup { [i \in 1..5 |-> IF i = j THEN <<Str(<<"7">>)>> ELSE <<>>] : j \in 1..5 }

\* tag names SVGElement::new is called with
NewTags == {<<"t", "e", "s", "t", "_", "e", "l", "e", "m", "e", "n", "t">>, <<"t", "e", "x", "t">>}

\* keys and values add_attr is called with; "x" is a proper prefix of "x1"
AttrKeys == {<<"x">>, <<"x", "1">>}
AttrValues == {I32(10), Str(<<"h", "i">>)}

\* keys get_value is asked for
QueryKeys == AttrKeys \cup {<<"p", "o", "i", "n", "t", "s">>}

\* the Vec<(i32, i32)> of the points (0,0), (1,1), ..., (n-1,n-1)
PointVec(n) == [vec |-> [i \in 1..n |-> <<I32(i - 1), I32(i - 1)>>]]

\* what polygon and polyline are called with: a String, or a Vec of points
PointInputs == {Str(<<"0", ",", "0", " ", "5", ",", "5">>)} \cup {PointVec(n) : n \in 0..MaxVecLen}

\* the sequences of distinct members of S, of length at most n
DistinctSeqs(S, n) ==
    UNION { {s \in [1..k -> S] : \A i, j \in 1..k : i # j => s[i] # s[j]} : k \in 0..n }

\* the nodes the Vec<PathNode> handed to path is made of
PathNodes ==
    { PathNode_move_to(I32(0), I32(0)), PathNode_line_to(I32(10), I32(10)),
      PathNode_close_path }

\* what path is called with: a Vec<PathNode>, or a Vec<(i32, i32)>
PathInputs ==
    DistinctSeqs(PathNodes, MaxVecLen)
        \cup {[i \in 1..n |-> Pair(I32(i - 1), I32(10))] : n \in 1..MaxVecLen}

---------------------------------------------------------------------------
(* The element program: a caller constructs one SVGElement, sets attributes on
   it, reads them back, and serializes it. *)

NoCall == [ctor |-> "none"]
NoRes == [op |-> "none"]

\* the log entries of the add_attr calls kvs: the key and the text of the value
Logged(kvs) == [i \in 1..Len(kvs) |-> <<kvs[i][1], to_string(kvs[i][2])>>]

docVars == <<svg, svgCalls, added, out>>

\* the caller obtains e from the constructor call `call`, which made the add_attr
\* calls kvs on it
Construct(e, call, kvs) ==
    /\ el = NoElement
    /\ el' = e
    /\ made' = call
    /\ calls' = Logged(kvs)
    /\ nadd' = 0
    /\ res' = NoRes
    /\ UNCHANGED <<node, docVars>>

New ==
    \E tag \in NewTags :
        /\ Construct(SVGElement_new(tag), [ctor |-> "new"], <<>>)
        /\ UNCHANGED coerced

Rect ==
    \E a \in IntArgs(4), rx \in OptInt, ry \in OptInt :
        /\ Construct(SVGElement_rect(a[1], a[2], a[3], a[4], rx, ry), [ctor |-> "rect"],
                     rect_attrs(a[1], a[2], a[3], a[4], rx, ry))
        /\ UNCHANGED coerced

Circle ==
    \E a \in IntArgs(3) :
        /\ Construct(SVGElement_circle(a[1], a[2], a[3]), [ctor |-> "circle"],
                     circle_attrs(a[1], a[2], a[3]))
        /\ UNCHANGED coerced

Ellipse ==
    \E a \in IntArgs(4) :
        /\ Construct(SVGElement_ellipse(a[1], a[2], a[3], a[4]), [ctor |-> "ellipse"],
                     ellipse_attrs(a[1], a[2], a[3], a[4]))
        /\ UNCHANGED coerced

Line ==
    \E a \in IntArgs(4) :
        /\ Construct(SVGElement_line(a[1], a[2], a[3], a[4]), [ctor |-> "line"],
                     line_attrs(a[1], a[2], a[3], a[4]))
        /\ UNCHANGED coerced

Polygon ==
    \E points \in PointInputs :
        /\ Construct(SVGElement_polygon(points), [ctor |-> "polygon"], points_attrs(points))
        /\ UNCHANGED coerced

Polyline ==
    \E points \in PointInputs :
        /\ Construct(SVGElement_polyline(points), [ctor |-> "polyline"],
                     points_attrs(points))
        /\ UNCHANGED coerced

Path ==
    \E d \in PathInputs :
        /\ Construct(SVGElement_path(d), [ctor |-> "path", d |-> d], path_attrs(d))
        /\ coerced' = path_nodes(d)

Text ==
    \E opt \in OptStrArgs :
        LET text == Str(<<"h", "i">>)
            x == Str(<<"1", "0">>)
            y == Str(<<"2", "0">>)
            dx == opt[1]
            dy == opt[2]
            rotate == opt[3]
            text_length == opt[4]
            length_adjust == opt[5]
        IN  /\ Construct(SVGElement_text(text, x, y, dx, dy, rotate, text_length,
                                         length_adjust),
                         [ctor |-> "text", text |-> text, x |-> x, y |-> y, dx |-> dx,
                          dy |-> dy, rotate |-> rotate, text_length |-> text_length,
                          length_adjust |-> length_adjust],
                         text_attrs(x, y, dx, dy, rotate, text_length, length_adjust))
            /\ UNCHANGED coerced

AddAttr ==
    \E key \in AttrKeys, value \in AttrValues :
        /\ el # NoElement
        /\ nadd < MaxAddAttr
        /\ el' = SVGElement_add_attr(el, key, value)
        /\ calls' = Append(calls, <<key, to_string(value)>>)
        /\ nadd' = nadd + 1
        /\ res' = NoRes
        /\ UNCHANGED <<made, node, coerced, docVars>>

GetValue ==
    \E key \in QueryKeys :
        /\ el # NoElement
        /\ res' = [op |-> "get_value", key |-> key,
                   result |-> SVGElement_get_value(el, key)]
        /\ UNCHANGED <<el, made, calls, nadd, node, coerced, docVars>>

FormatKeys ==
    \E order \in Orders :
        /\ el # NoElement
        /\ res' = [op |-> "format_keys", text |-> SVGElement_format_keys(el, order)]
        /\ UNCHANGED <<el, made, calls, nadd, node, coerced, docVars>>

ElementToString ==
    \E order \in Orders :
        /\ el # NoElement
        /\ res' = [op |-> "to_string", text |-> SVGElement_fmt(el, order)]
        /\ UNCHANGED <<el, made, calls, nadd, node, coerced, docVars>>


---------------------------------------------------------------------------
(* The path program: a caller constructs PathNodes, coerces nodes and pairs with
   to_path_node, and builds a path element. *)

\* what a step that only gives the caller a PathNode leaves alone
nodeRest == <<el, made, calls, nadd, res, coerced, docVars>>

MoveTo ==
    \E a \in IntArgs(2) :
        /\ node' = PathNode_move_to(a[1], a[2])
        /\ UNCHANGED nodeRest
MoveBy ==
    \E a \in IntArgs(2) :
        /\ node' = PathNode_move_by(a[1], a[2])
        /\ UNCHANGED nodeRest
LineTo ==
    \E a \in IntArgs(2) :
        /\ node' = PathNode_line_to(a[1], a[2])
        /\ UNCHANGED nodeRest
LineBy ==
    \E a \in IntArgs(2) :
        /\ node' = PathNode_line_by(a[1], a[2])
        /\ UNCHANGED nodeRest
HorizontalTo ==
    \E a \in IntArgs(1) :
        /\ node' = PathNode_horizontal_to(a[1])
        /\ UNCHANGED nodeRest
HorizontalBy ==
    \E a \in IntArgs(1) :
        /\ node' = PathNode_horizontal_by(a[1])
        /\ UNCHANGED nodeRest
VerticalTo ==
    \E a \in IntArgs(1) :
        /\ node' = PathNode_vertical_to(a[1])
        /\ UNCHANGED nodeRest
VerticalBy ==
    \E a \in IntArgs(1) :
        /\ node' = PathNode_vertical_by(a[1])
        /\ UNCHANGED nodeRest
CubicTo ==
    \E a \in IntArgs(6) :
        /\ node' = PathNode_cubic_to(a[1], a[2], a[3], a[4], a[5], a[6])
        /\ UNCHANGED nodeRest
CubicBy ==
    \E a \in IntArgs(6) :
        /\ node' = PathNode_cubic_by(a[1], a[2], a[3], a[4], a[5], a[6])
        /\ UNCHANGED nodeRest
SmoothCubicTo ==
    \E a \in IntArgs(4) :
        /\ node' = PathNode_smooth_cubic_to(a[1], a[2], a[3], a[4])
        /\ UNCHANGED nodeRest
SmoothCubicBy ==
    \E a \in IntArgs(4) :
        /\ node' = PathNode_smooth_cubic_by(a[1], a[2], a[3], a[4])
        /\ UNCHANGED nodeRest
QuadraticTo ==
    \E a \in IntArgs(4) :
        /\ node' = PathNode_quadratic_to(a[1], a[2], a[3], a[4])
        /\ UNCHANGED nodeRest
QuadraticBy ==
    \E a \in IntArgs(4) :
        /\ node' = PathNode_quadratic_by(a[1], a[2], a[3], a[4])
        /\ UNCHANGED nodeRest
SmoothQuadraticTo ==
    \E a \in IntArgs(2) :
        /\ node' = PathNode_smooth_quadratic_to(a[1], a[2])
        /\ UNCHANGED nodeRest
SmoothQuadraticBy ==
    \E a \in IntArgs(2) :
        /\ node' = PathNode_smooth_quadratic_by(a[1], a[2])
        /\ UNCHANGED nodeRest
EllipticalTo ==
    \E a \in IntArgs(7) :
        /\ node' = PathNode_elliptical_to(a[1], a[2], a[3], a[4], a[5], a[6], a[7])
        /\ UNCHANGED nodeRest
EllipticalBy ==
    \E a \in IntArgs(7) :
        /\ node' = PathNode_elliptical_by(a[1], a[2], a[3], a[4], a[5], a[6], a[7])
        /\ UNCHANGED nodeRest
ClosePath ==
    /\ node' = PathNode_close_path
    /\ UNCHANGED nodeRest

\* the tags a caller hands to to_path_node: letters of the command alphabet
CallerTags == {<<"M">>, <<"l">>, <<"Z">>}

\* node.to_path_node(tag) on the PathNode the caller holds
CoerceNode ==
    \E tag \in CallerTags :
        /\ node # NoNode
        /\ node' = to_path_node(node, tag)
        /\ UNCHANGED nodeRest

\* (x, y).to_path_node(tag)
CoercePair ==
    \E a \in IntArgs(2), tag \in CallerTags :
        /\ node' = to_path_node(Pair(a[1], a[2]), tag)
        /\ UNCHANGED nodeRest

NextPath ==
    \/ MoveTo \/ MoveBy \/ LineTo \/ LineBy \/ HorizontalTo \/ HorizontalBy
    \/ VerticalTo \/ VerticalBy \/ CubicTo \/ CubicBy \/ SmoothCubicTo \/ SmoothCubicBy
    \/ QuadraticTo \/ QuadraticBy \/ SmoothQuadraticTo \/ SmoothQuadraticBy
    \/ EllipticalTo \/ EllipticalBy \/ ClosePath \/ CoerceNode \/ CoercePair \/ Path

---------------------------------------------------------------------------
(* The document program: a caller creates an SVG, sets attributes on it, adds
   elements to it, and serializes it. *)

\* what SVG::new is called with: (100, 100, None), or three &str
SvgInputs ==
    { <<I32(100), I32(100), <<>> >>, <<Str(<<"8">>), Str(<<"6">>), <<Str(<<"n", "s">>)>> >> }

\* keys and values SVG::add_attr is called with
SvgKeys == {<<"w", "i", "d", "t", "h">>, <<"i", "d">>}
SvgValues == {I32(5)}

\* the elements a caller adds, each as the constructor's tag and inner text and
\* the add_attr calls made on it (the constructor's, then the caller's).  The
\* second and the third end with the same attributes, set in different orders.
ElementInputs ==
    { [tag |-> <<"t", "e", "s", "t", "_", "e", "l", "e", "m", "e", "n", "t">>, inner |-> <<>>,
       kvs |-> << <<<<"t", "e", "s", "t", "_", "a", "t", "t", "r">>, Str(<<"f", "o", "o">>)>> >>],
      [tag |-> <<"g">>, inner |-> <<>>,
       kvs |-> << <<<<"x">>, I32(1)>>, <<<<"x", "1">>, I32(2)>>, <<<<"y">>, I32(3)>> >>],
      [tag |-> <<"g">>, inner |-> <<>>,
       kvs |-> << <<<<"y">>, I32(3)>>, <<<<"x", "1">>, I32(2)>>, <<<<"x">>, I32(9)>>,
                  <<<<"x">>, I32(1)>> >>],
      [tag |-> <<"t", "e", "x", "t">>, inner |-> <<<<"h", "i">>>>,
       kvs |-> text_attrs(Str(<<"1", "0">>), Str(<<"2", "0">>), <<>>, <<>>, <<>>, <<>>, <<>>)] }

\* the element an input stands for
Built(input) == AddAttrs(Element(input.tag, input.inner), input.kvs)

elemVars == <<el, made, calls, nadd, res, node, coerced>>

SvgNew ==
    \E a \in SvgInputs :
        /\ svg = NoSvg
        /\ svg' = SVG_new(a[1], a[2], a[3])
        /\ svgCalls' = Logged(svg_attrs(a[1], a[2], a[3]))
        /\ out' = <<>>
        /\ UNCHANGED <<added, elemVars>>

SvgAddAttr ==
    \E key \in SvgKeys, value \in SvgValues :
        /\ svg # NoSvg
        /\ Len(svgCalls) < 3 + MaxAddAttr
        /\ svg' = SVG_add_attr(svg, key, value)
        /\ svgCalls' = Append(svgCalls, <<key, to_string(value)>>)
        /\ out' = <<>>
        /\ UNCHANGED <<added, elemVars>>

SvgAddElement ==
    \E input \in ElementInputs :
        /\ svg # NoSvg
        /\ Len(svg.elements) < MaxElements
        /\ svg' = SVG_add_element(svg, Built(input))
        /\ added' = Append(added, input)
        /\ out' = <<>>
        /\ UNCHANGED <<svgCalls, elemVars>>

\* svg.to_string()
Serialize ==
    \E order \in Orders :
        /\ svg # NoSvg
        /\ Len(out) < MaxSerialize
        /\ out' = Append(out, SVG_fmt(svg, order))
        /\ UNCHANGED <<svg, svgCalls, added, elemVars>>

NextDoc == SvgNew \/ SvgAddAttr \/ SvgAddElement \/ Serialize

---------------------------------------------------------------------------
(* The specifications. *)

Init ==
    /\ el = NoElement
    /\ made = NoCall
    /\ calls = <<>>
    /\ nadd = 0
    /\ res = NoRes
    /\ node = NoNode
    /\ coerced = <<>>
    /\ svg = NoSvg
    /\ svgCalls = <<>>
    /\ added = <<>>
    /\ out = <<>>

Next ==
    \/ New \/ Rect \/ Circle \/ Ellipse \/ Line \/ Polygon \/ Polyline \/ Path \/ Text
    \/ AddAttr \/ GetValue \/ FormatKeys \/ ElementToString

\* the element program
Spec == Init /\ [][Next]_vars

\* the path program
SpecPath == Init /\ [][NextPath]_vars

\* the document program
SpecDoc == Init /\ [][NextDoc]_vars

---------------------------------------------------------------------------
(* What the claims are stated with. *)

\* the keys of S from the least to the greatest
Ascending(S) ==
    LET d == Descending(S) IN [i \in 1..Len(d) |-> d[Len(d) + 1 - i]]

\* one key="value" token per key of m, in ascending order of the keys, joined by
\* single spaces
KeyOrdered(m) ==
    LET keys == Ascending(DOMAIN m)
    IN  Join([i \in 1..Len(keys) |-> keys[i] \o <<"=", "\"">> \o m[keys[i]] \o <<"\"">>], <<" ">>)

\* the keys a log of add_attr calls names
LoggedKeys(log) == {log[i][1] : i \in 1..Len(log)}

\* the text of the most recent call of the log on key
LastText(log, key) ==
    LET last == CHOOSE i \in 1..Len(log) :
                    /\ log[i][1] = key
                    /\ \A j \in (i + 1)..Len(log) : log[j][1] # key
    IN  log[last][2]

\* the mapping a log of add_attr calls leaves: each key to its last-written text
LastWrites(log) == [k \in LoggedKeys(log) |-> LastText(log, k)]

\* an optional argument's text, or the default when it is absent
Given(opt, default) == IF opt = <<>> THEN default ELSE to_string(opt[1])

CommandLetters ==
    { <<"M">>, <<"m">>, <<"L">>, <<"l">>, <<"H">>, <<"h">>, <<"V">>, <<"v">>, <<"C">>, <<"c">>, <<"S">>, <<"s">>, <<"Q">>,
      <<"q">>, <<"T">>, <<"t">>, <<"A">>, <<"a">>, <<"Z">> }

---------------------------------------------------------------------------
(* The claims. *)

\* C1 (as claimed): format_keys gives one key="value" token per key, joined by
\* single spaces, in ascending byte order of the KEYS, also when one key is a
\* proper prefix of another; the empty map gives the empty string.
C1_TokensInKeyOrder ==
    res.op = "format_keys" => res.text = KeyOrdered(el.attributes)

\* C2: get_value(k) answers Ok with the text of the most recent add_attr(k, _),
\* and Err(KeyNotFound(k)) exactly when no add_attr(k, _) was ever made; it never
\* changes the element.
C2_GetValueLastWrite ==
    [][ res'.op = "get_value" =>
          /\ el' = el
          /\ calls' = calls
          /\ res'.result =
                IF res'.key \in LoggedKeys(calls)
                THEN [ok |-> LastText(calls, res'.key)]
                ELSE [err |-> <<"K", "e", "y", "N", "o", "t", "F", "o", "u", "n", "d">>, key |-> res'.key] ]_vars

\* get_value answered for a key that was set and later overwritten with another text
C2_Witness ==
    /\ res.op = "get_value"
    /\ \E i, j \in 1..Len(calls) :
          /\ i < j
          /\ calls[i][1] = res.key
          /\ calls[j][1] = res.key
          /\ calls[i][2] # calls[j][2]

\* the text of one line per added element, each followed by nothing and preceded
\* by "\n" from the second on, for the first k elements
RECURSIVE ElementLines(_, _)
ElementLines(order, k) ==
    IF k = 0 THEN <<>>
    ELSE (IF k = 1 THEN <<>> ELSE ElementLines(order, k - 1) \o <<"\n">>)
            \o SVGElement_fmt(Built(added[k]), order + k)

\* C3: the document's text is "<svg " + attributes + ">\n" + the elements' texts
\* joined by "\n" in the order of the add_element calls + "\n</svg>", which with
\* no element is "<svg {attrs}>\n\n</svg>"; add_attr leaves the elements alone
\* and add_element leaves the attributes and the earlier elements alone.
C3_DocumentLayout ==
    svg # NoSvg =>
        /\ svg.elements = [i \in 1..Len(added) |-> Built(added[i])]
        /\ svg.attributes = LastWrites(svgCalls)
        /\ \A n \in 1..Len(out), order \in Orders :
              /\ out[n] = <<"<", "s", "v", "g", " ">> \o SVG_format_keys(svg, order) \o <<">", "\n">>
                            \o ElementLines(order, Len(added)) \o <<"\n", "<", "/", "s", "v", "g", ">">>
              /\ added = <<>> =>
                    out[n] = <<"<", "s", "v", "g", " ">> \o SVG_format_keys(svg, order) \o <<">", "\n", "\n", "<", "/", "s", "v", "g", ">">>

\* a document serialized after two different elements and a caller's add_attr
C3_Witness ==
    /\ Len(out) > 0
    /\ Len(added) = 2
    /\ added[1] # added[2]
    /\ Len(svgCalls) > 3

\* C4: the form of an element's text is chosen by the inner text alone: without
\* inner text and with attributes it is "<{tag} {attrs} />"; with inner text it is
\* "<{tag} {attrs}>{inner}</{tag}>", the space before attrs left out exactly when
\* there are no attributes.
C4_FormByInnerText ==
    res.op = "to_string" =>
        \A order \in Orders :
            LET attrs == SVGElement_format_keys(el, order)
                none == DOMAIN el.attributes = {}
            IN  /\ (el.inner = <<>> /\ ~none) =>
                      res.text = <<"<">> \o el.tag \o <<" ">> \o attrs \o <<" ", "/", ">">>
                /\ (el.inner # <<>> /\ ~none) =>
                      res.text = <<"<">> \o el.tag \o <<" ">> \o attrs \o <<">">> \o el.inner[1]
                                    \o <<"<", "/">> \o el.tag \o <<">">>
                /\ (el.inner # <<>> /\ none) =>
                      res.text = <<"<">> \o el.tag \o <<">">> \o el.inner[1]
                                    \o <<"<", "/">> \o el.tag \o <<">">>

\* an element tagged "text" without inner text, with attributes, was serialized
C4_Witness ==
    /\ res.op = "to_string"
    /\ el.tag = <<"t", "e", "x", "t">>
    /\ el.inner = <<>>
    /\ DOMAIN el.attributes # {}

\* C5 (as claimed): without inner text and without attributes the text is
\* "<{tag}  />", with two spaces.
C5_TwoSpaces ==
    (res.op = "to_string" /\ el.inner = <<>> /\ DOMAIN el.attributes = {}) =>
        res.text = <<"<">> \o el.tag \o <<" ", " ", "/", ">">>

\* C5 (amended): without inner text and without attributes the text is
\* "<{tag} />", with one space: the space before the attributes is left out.
C5_OneSpace ==
    (res.op = "to_string" /\ el.inner = <<>> /\ DOMAIN el.attributes = {}) =>
        res.text = <<"<">> \o el.tag \o <<" ", "/", ">">>

\* an element without inner text and without attributes was serialized
C5_Witness ==
    /\ res.op = "to_string"
    /\ el.inner = <<>>
    /\ DOMAIN el.attributes = {}

\* the command texts "{letter} {operands}" of the first k nodes, a space between
\* one and the next
RECURSIVE Commands(_, _)
Commands(nodes, k) ==
    IF k = 0 THEN <<>>
    ELSE (IF k = 1 THEN <<>> ELSE Commands(nodes, k - 1) \o <<" ">>)
            \o nodes[k].tag \o <<" ">> \o nodes[k].point_data

\* C6: path(d) gives an element tagged "path" whose only attribute d is the
\* inputs' texts "{letter} {operands}" joined by single spaces in input order; no
\* input gives d = "", and move_to(0,0), line_to(10,10), close_path() gives
\* d = "M 0,0 L 10,10 Z ".
C6_PathData ==
    made.ctor = "path" =>
        /\ el.tag = <<"p", "a", "t", "h">>
        /\ DOMAIN el.attributes = {<<"d">>}
        /\ Len(coerced) = Len(made.d)
        /\ \A i \in 1..Len(made.d) : "tag" \in DOMAIN made.d[i] => coerced[i] = made.d[i]
        /\ el.attributes[<<"d">>] = Commands(coerced, Len(coerced))
        /\ made.d = <<>> => el.attributes[<<"d">>] = <<>>
        /\ made.d = <<PathNode_move_to(I32(0), I32(0)), PathNode_line_to(I32(10), I32(10)),
                      PathNode_close_path>>
              => el.attributes[<<"d">>] = <<"M", " ", "0", ",", "0", " ", "L", " ", "1", "0", ",", "1", "0", " ", "Z", " ">>

\* path was called with move_to(0,0), line_to(10,10), close_path()
C6_Witness ==
    /\ made.ctor = "path"
    /\ made.d = <<PathNode_move_to(I32(0), I32(0)), PathNode_line_to(I32(10), I32(10)),
                  PathNode_close_path>>
    /\ el.attributes[<<"d">>] = <<"M", " ", "0", ",", "0", " ", "L", " ", "1", "0", ",", "1", "0", " ", "Z", " ">>

\* C7 (as claimed): every PathNode the public API produces, by a constructor or
\* by to_path_node (also inside path), has a letter of the command alphabet.
C7_LettersInAlphabet ==
    /\ node # NoNode => node.tag \in CommandLetters
    /\ \A i \in 1..Len(coerced) : coerced[i].tag \in CommandLetters

\* C8: serializing a document again without a mutation in between gives the same
\* text, and serializing leaves the document as it was.
C8_SerializeRepeatable ==
    [][ Len(out') > Len(out) =>
          /\ svg' = svg
          /\ \A n \in 1..Len(out') : out'[n] = out'[1] ]_vars

\* a document with two elements was serialized twice in a row
C8_Witness ==
    /\ Len(out) = 2
    /\ Len(added) = 2

\* the document with the attributes the add_attr calls leave, whatever their order
LastWritten ==
    [attributes |-> LastWrites(svgCalls),
     elements |-> [i \in 1..Len(added) |->
                     [tag |-> added[i].tag,
                      attributes |-> LastWrites(Logged(added[i].kvs)),
                      inner |-> added[i].inner]]]

\* C9: the text depends on the attributes only through the last value written
\* per key: whatever the order of the add_attr calls on the document and on its
\* elements, and whatever order the maps are iterated in, it is the text of the
\* document holding the last-written values.
C9_InsertionOrderIrrelevant ==
    \A n \in 1..Len(out) : out[n] = SVG_fmt(LastWritten, 0)

\* a serialized document whose two elements got the same attributes by different
\* call sequences, one overwriting a key
C9_Witness ==
    /\ Len(out) > 0
    /\ Len(added) = 2
    /\ added[1].kvs # added[2].kvs
    /\ LastWrites(Logged(added[1].kvs)) = LastWrites(Logged(added[2].kvs))
    /\ Len(svgCalls) > 3

\* C10: text(...) gives the tag "text", the content as inner text, and exactly
\* the attributes x, y, dx, dy, rotate, textLength, lengthAdjust, an absent
\* optional argument taking "0", "0", "0", "none", "spacing"; no other
\* constructor gives inner text, and add_attr never changes whether there is one.
C10_TextConstructor ==
    el # NoElement =>
        /\ (el.inner # <<>>) <=> (made.ctor = "text")
        /\ made.ctor = "text" =>
              /\ el.tag = <<"t", "e", "x", "t">>
              /\ el.inner = <<to_string(made.text)>>
        /\ (made.ctor = "text" /\ nadd = 0) =>
              /\ DOMAIN el.attributes =
                    {<<"x">>, <<"y">>, <<"d", "x">>, <<"d", "y">>, <<"r", "o", "t", "a", "t", "e">>, <<"t", "e", "x", "t", "L", "e", "n", "g", "t", "h">>, <<"l", "e", "n", "g", "t", "h", "A", "d", "j", "u", "s", "t">>}
              /\ el.attributes[<<"x">>] = to_string(made.x)
              /\ el.attributes[<<"y">>] = to_string(made.y)
              /\ el.attributes[<<"d", "x">>] = Given(made.dx, <<"0">>)
              /\ el.attributes[<<"d", "y">>] = Given(made.dy, <<"0">>)
              /\ el.attributes[<<"r", "o", "t", "a", "t", "e">>] = Given(made.rotate, <<"0">>)
              /\ el.attributes[<<"t", "e", "x", "t", "L", "e", "n", "g", "t", "h">>] = Given(made.text_length, <<"n", "o", "n", "e">>)
              /\ el.attributes[<<"l", "e", "n", "g", "t", "h", "A", "d", "j", "u", "s", "t">>] = Given(made.length_adjust, <<"s", "p", "a", "c", "i", "n", "g">>)

\* text was called with textLength given and the other optional arguments absent
C10_Witness ==
    /\ made.ctor = "text"
    /\ nadd = 0
    /\ made.dx = <<>>
    /\ made.text_length # <<>>
    /\ made.length_adjust = <<>>
====
